---- MODULE Spec2Model ----
(***************************************************************************)
(* The sequential-thinking reasoning-chain engine of src/tools.py          *)
(* (sequential_think / sequential_review and their helpers) together with  *)
(* the primary store manager of src/backend/sequential_thinking_mongodb.py.*)
(*                                                                         *)
(* A text is a sequence of one-character strings, so that strip(),         *)
(* split(), lower() and the substring test of the code are computed, not   *)
(* assumed.                                                                *)
(***************************************************************************)
EXTENDS Integers, Sequences, FiniteSets, TLC

(***************************************************************************)
(* Bounds of the model.  MAX_DEPTH and MAX_TOKENS are the configuration    *)
(* of src/tools.py:797-798 (100 and 50000) scaled down so that both limits *)
(* are reached.                                                            *)
(***************************************************************************)
MAX_DEPTH == 3

MAX_TOKENS == 4

\* Largest value of the wall clock int(time.time()) the model lets pass.
MaxTime == 1

\* Requests one thread serves.
MaxCalls == 2

\* duplicate_threshold = 0.92, in hundredths (src/tools.py:915).
DUPLICATE_THRESHOLD == 92

\* "confidence": 0.95, in hundredths (src/tools.py:936).
CONFIDENCE == 95

\* The semantic hash keeps 16 characters; the model keeps a digest modulo this.
HashMod == 16

\* Bytes of a thought's JSON line without its step, text and timestamp: the
\* keys, the punctuation, the 36-character uuid, the 16-character semantic id,
\* 0.95 and the newline (src/tools.py:892).
JsonFixedBytes == 141

\* Bytes of `, "parent": ` in a branch's JSON line.
JsonParentBytes == 12

----------------------------------------------------------------------------
(* Python string primitives on sequences of characters. *)

IsSpace(c) == c \in {" ", "\n", "\t"}

\* str.lower() on the alphabet the model's texts use.
LowerChar(c) ==
    CASE c = "A" -> "a"
      [] c = "B" -> "b"
      [] c = "N" -> "n"
      [] c = "O" -> "o"
      [] OTHER -> c

Lower(s) == [i \in 1..Len(s) |-> LowerChar(s[i])]

RECURSIVE LStrip(_)
LStrip(s) ==
    IF s = <<>> THEN <<>>
    ELSE IF IsSpace(Head(s)) THEN LStrip(Tail(s))
    ELSE s

RECURSIVE RStrip(_)
RStrip(s) ==
    IF s = <<>> THEN <<>>
    ELSE IF IsSpace(s[Len(s)]) THEN RStrip(SubSeq(s, 1, Len(s) - 1))
    ELSE s

\* Variant: nothing is stripped.
NoStrip(s) == s

\* str.strip()
Strip(s) == RStrip(LStrip(s))

\* str.split() without arguments: the maximal runs of non-whitespace.
RECURSIVE SplitFrom(_, _, _)
SplitFrom(s, cur, acc) ==
    IF s = <<>> THEN (IF cur = <<>> THEN acc ELSE Append(acc, cur))
    ELSE IF IsSpace(Head(s))
         THEN SplitFrom(Tail(s), <<>>, IF cur = <<>> THEN acc ELSE Append(acc, cur))
         ELSE SplitFrom(Tail(s), Append(cur, Head(s)), acc)

Split(s) == SplitFrom(s, <<>>, <<>>)

\* `k in s` for strings.
Contains(s, k) ==
    \E i \in 1..(Len(s) - Len(k) + 1) : SubSeq(s, i, i + Len(k) - 1) = k

SeqToSet(q) == {q[i] : i \in 1..Len(q)}

\* Position of a character in the alphabet, for the digest.
Alphabet == <<" ", "\n", "a", "b", "k", "n", "o", "w", "A", "B", "N", "O",
              "[", "]", "m", "e", "r", "g", "d", "t", "u">>

Ord(c) == IF \E i \in 1..Len(Alphabet) : Alphabet[i] = c
          THEN CHOOSE i \in 1..Len(Alphabet) : Alphabet[i] = c
          ELSE 0

\* _tokens(text): len(text.split())
Tokens(text) == Len(Split(text))

RECURSIVE HashFrom(_, _)
HashFrom(s, h) ==
    IF s = <<>> THEN h ELSE HashFrom(Tail(s), (h * 31 + Ord(Head(s))) % HashMod)

\* _semantic_hash(text): a short digest that is a function of the text.
SemanticHash(text) == HashFrom(text, 7)

----------------------------------------------------------------------------
(* Decimal text of integers, as int() reads it and the f-strings write it. *)

DigitChars == <<"0", "1", "2", "3", "4", "5", "6", "7", "8", "9">>

IsDigit(c) == \E d \in 1..10 : DigitChars[d] = c

DigitVal(c) == (CHOOSE d \in 1..10 : DigitChars[d] = c) - 1

RECURSIVE DecStr(_)
DecStr(n) ==
    IF n < 0 THEN <<"-">> \o DecStr(0 - n)
    ELSE IF n < 10 THEN <<DigitChars[n + 1]>>
    ELSE DecStr(n \div 10) \o <<DigitChars[(n % 10) + 1]>>

\* f"{step:02d}"
Pad2(n) == IF n >= 0 /\ n < 10 THEN <<"0">> \o DecStr(n) ELSE DecStr(n)

RECURSIVE DigitsVal(_, _)
DigitsVal(s, acc) ==
    IF s = <<>> THEN acc ELSE DigitsVal(Tail(s), acc * 10 + DigitVal(Head(s)))

NoneStr == <<"N", "o", "n", "e">>

\* int(branch_from): surrounding whitespace, an optional sign, then digits only.
IntParses(s) ==
    LET t == Strip(s)
        d == IF t # <<>> /\ Head(t) \in {"-", "+"} THEN Tail(t) ELSE t
    IN  d # <<>> /\ \A i \in 1..Len(d) : IsDigit(d[i])

IntValue(s) ==
    LET t == Strip(s)
        neg == t # <<>> /\ Head(t) = "-"
        d == IF t # <<>> /\ Head(t) \in {"-", "+"} THEN Tail(t) ELSE t
    IN  IF neg THEN 0 - DigitsVal(d, 0) ELSE DigitsVal(d, 0)

\* Optional[int]: branch_from_int of sequential_think.
NoneInt == [isNone |-> TRUE, val |-> 0]

SomeInt(n) == [isNone |-> FALSE, val |-> n]

----------------------------------------------------------------------------
(* Similarity and the duplicate test. *)

\* contradiction_keywords of _add_thought.
ContradictionKeywords ==
    { <<"h", "o", "w", "e", "v", "e", "r">>,
      <<"b", "u", "t">>,
      <<"a", "c", "t", "u", "a", "l", "l", "y">>,
      <<"w", "a", "i", "t">>,
      <<"n", "o">> }

\* Variant: the keywords are looked up in the text as written, not lowercased.
IsContradictionCaseSensitive(text) ==
    \E k \in ContradictionKeywords : Contains(text, k)

\* any(keyword in text.lower() for keyword in contradiction_keywords)
IsContradiction(text) ==
    \E k \in ContradictionKeywords : Contains(Lower(text), k)

\* _similarity(a, b) as a fraction <<numerator, denominator>>.  Without an
\* embedding model it is the word overlap of the lowercased word sets; with
\* one it is the cosine the model returns, an input of the call (hundredths).
Similarity(a, b, hasEmbed, cosine) ==
    IF ~hasEmbed
    THEN LET words_a == SeqToSet(Split(Lower(a)))
             words_b == SeqToSet(Split(Lower(b)))
         IN  IF words_a = {} \/ words_b = {} THEN <<0, 1>>
             ELSE <<Cardinality(words_a \cap words_b),
                    Cardinality(words_a \cup words_b)>>
    ELSE <<cosine, 100>>

\* similarity > duplicate_threshold
ExceedsThreshold(sim) == sim[1] * 100 > DUPLICATE_THRESHOLD * sim[2]

\* The text a merge appends: f"\n[merged] {text}"
MergedSuffix(text) ==
    <<"\n", "[", "m", "e", "r", "g", "e", "d", "]", " ">> \o text

RECURSIVE SumTokens(_)
SumTokens(thoughts) ==
    IF thoughts = <<>> THEN 0
    ELSE Tokens(Head(thoughts).text) + SumTokens(Tail(thoughts))

\* sorted(thoughts, key=lambda x: x.get("step", 0)): a stable insertion sort.
RECURSIVE InsertByStep(_, _)
InsertByStep(t, sorted) ==
    IF sorted = <<>> THEN <<t>>
    ELSE IF Head(sorted).step <= t.step
         THEN <<Head(sorted)>> \o InsertByStep(t, Tail(sorted))
         ELSE <<t>> \o sorted

RECURSIVE SortByStep(_)
SortByStep(thoughts) ==
    IF thoughts = <<>> THEN <<>>
    ELSE InsertByStep(thoughts[Len(thoughts)],
                      SortByStep(SubSeq(thoughts, 1, Len(thoughts) - 1)))

----------------------------------------------------------------------------
(* State. *)

\* Session ids are strings; as texts, they are sequences of characters.
S1 == <<"s", "1">>

DotS1 == <<".", "/", "s", "1">>

S2 == <<"s", "2">>

\* The session the calls of most specifications use.
Sessions == {S1}

\* Every session id some specification uses.
SessionIds == {S1, DotS1, S2}

\* The components of a relative path as pathlib keeps them: the text between
\* slashes, without the empty and the "." components.
RECURSIVE PathParts(_, _, _)
PathParts(s, cur, acc) ==
    LET kept == IF cur = <<>> \/ cur = <<".">> THEN acc ELSE Append(acc, cur)
    IN  IF s = <<>> THEN kept
        ELSE IF Head(s) = "/" THEN PathParts(Tail(s), <<>>, kept)
        ELSE PathParts(Tail(s), Append(cur, Head(s)), acc)

\* PERSIST_DIR / f"{session_id}.jsonl", relative to PERSIST_DIR, for every
\* session id in use.
PathOfSession ==
    [s \in SessionIds |->
        PathParts(s \o <<".", "j", "s", "o", "n", "l">>, <<>>, <<>>)]

FilePath(sid) == PathOfSession[sid]

FilePaths == {FilePath(s) : s \in SessionIds}

VARIABLES
    mongo,      \* primary store: session id -> its document of collection "sequential_thinking"
    file,       \* PERSIST_DIR: path -> the .jsonl file there, one thought per line
    mongoUp,    \* the primary store answers (is_connected and the collection call succeed)
    collBool,   \* the driver's collection objects can be truth tested (`not collection`)
    fileOk,     \* the local file system accepts reads and writes
    embed,      \* _embed is not None: the sentence-embedding model was loaded at import
    now,        \* int(time.time())
    last,       \* the call that has just returned: its arguments, what it saw, its result
    hist,       \* per session: the successful calls since the session last held no data
    lastSaved,  \* per session: the chain handed to the last _save_thoughts, or cleared
    inflight    \* per worker thread: the think call it is in, its position and locals

vars == <<mongo, file, mongoUp, collBool, fileOk, embed, now, last, hist, lastSaved,
         inflight>>

\* Worker threads of the request-processing layer that call the tools.
Threads == {"t1", "t2"}

\* A thread that is in no call.
Idle ==
    [pc |-> "idle", sid |-> <<>>, text |-> <<>>, loaded |-> <<>>, thoughts |-> <<>>,
     exc |-> "", ret |-> [kind |-> "none", msg |-> "", body |-> <<>>],
     fileBefore |-> <<>>, calls |-> 0]

NoDoc == [exists |-> FALSE, thoughts |-> <<>>]

NoFile == [exists |-> FALSE, lines |-> <<>>]

\* `if not collection:` of load_thoughts and save_thoughts.  get_collection
\* returns None when the store is unreachable, and None is falsy.  Else it
\* returns the driver's collection object: "object" when the driver lets it be
\* truth tested (it is then truthy), "raises" when the driver refuses truth
\* testing of collections and `not collection` raises.
NotCollection(up, truthy) ==
    IF ~up THEN "none"
    ELSE IF truthy THEN "object"
    ELSE "raises"

\* SequentialThinkingManager.load_thoughts: [] when the store is unreachable,
\* when anything raises, or when there is no document; else the document's
\* thoughts sorted by step.
MongoLoad(m, up, truthy, sid) ==
    IF NotCollection(up, truthy) # "object" THEN <<>>
    ELSE IF ~m[sid].exists THEN <<>>
    ELSE SortByStep(m[sid].thoughts)

\* Variant: the primary store is written only when the file system is healthy.
MongoSaveIfFileOk(m, up, truthy, sid, thoughts) ==
    IF ~fileOk \/ NotCollection(up, truthy) # "object" THEN m
    ELSE [m EXCEPT ![sid] = [exists |-> TRUE, thoughts |-> thoughts]]

\* A save that adds the thoughts the document lacks and keeps the ones it has.
MongoSaveKeepingStored(m, up, truthy, sid, thoughts) ==
    IF NotCollection(up, truthy) # "object" THEN m
    ELSE [m EXCEPT ![sid] =
             [exists |-> TRUE,
              thoughts |-> m[sid].thoughts \o
                  SelectSeq(thoughts,
                            LAMBDA x : \A i \in 1..Len(m[sid].thoughts) :
                                          m[sid].thoughts[i].uuid # x.uuid)]]

\* SequentialThinkingManager.save_thoughts: replace_one(..., upsert=True), or
\* nothing at all when the store is unreachable or anything raises.
MongoSave(m, up, truthy, sid, thoughts) ==
    IF NotCollection(up, truthy) # "object" THEN m
    ELSE [m EXCEPT ![sid] = [exists |-> TRUE, thoughts |-> thoughts]]

\* What is left of a line that was partly overwritten or partly cut: size
\* bytes that json.loads cannot parse.
Torn(size) ==
    [step |-> 0, text |-> <<>>, timestamp |-> 0, uuid |-> 0, semantic_id |-> 0,
     confidence |-> 0, torn |-> size]

IsTorn(t) == "torn" \in DOMAIN t

\* Bytes of a text inside a JSON string: a newline is written as two characters.
RECURSIVE TextBytes(_)
TextBytes(text) ==
    IF text = <<>> THEN 0
    ELSE (IF Head(text) = "\n" THEN 2 ELSE 1) + TextBytes(Tail(text))

\* Bytes of json.dumps(thought) + "\n".
LineSize(t) ==
    IF IsTorn(t) THEN t.torn
    ELSE JsonFixedBytes + Len(DecStr(t.step)) + TextBytes(t.text)
         + Len(DecStr(t.timestamp))
         + (IF "parent" \in DOMAIN t THEN JsonParentBytes + Len(DecStr(t.parent)) ELSE 0)

RECURSIVE ChainSize(_)
ChainSize(lines) ==
    IF lines = <<>> THEN 0 ELSE LineSize(Head(lines)) + ChainSize(Tail(lines))

\* What remains of the lines old after their first n bytes were overwritten.
RECURSIVE TailAfter(_, _)
TailAfter(old, n) ==
    IF old = <<>> THEN <<>>
    ELSE IF n = 0 THEN old
    ELSE IF LineSize(Head(old)) <= n THEN TailAfter(Tail(old), n - LineSize(Head(old)))
    ELSE <<Torn(LineSize(Head(old)) - n)>> \o Tail(old)

\* The file after a handle opened with 'w' writes its buffered lines at close:
\* the bytes go to offset 0, over whatever another writer has put there since
\* the open truncated the file.
WriteAtStart(old, new) == new \o TailAfter(old, ChainSize(new))

\* The rest of a line is its newline alone: line.strip() is empty and the
\* loader skips it.
IsBlank(t) == IsTorn(t) /\ t.torn = 1

\* _load_thoughts_from_file: [] when there is no file, when it cannot be read
\* and when a line is not JSON (json.loads raises), else the lines that are not
\* blank, by step.
LoadFromFile(f, ok, sid) ==
    IF ~ok THEN <<>>
    ELSE IF ~f[FilePath(sid)].exists THEN <<>>
    ELSE IF \E i \in 1..Len(f[FilePath(sid)].lines) :
                IsTorn(f[FilePath(sid)].lines[i]) /\ ~IsBlank(f[FilePath(sid)].lines[i])
    THEN <<>>
    ELSE SortByStep(SelectSeq(f[FilePath(sid)].lines, LAMBDA t : ~IsTorn(t)))

\* _save_thoughts_to_file: open(..., 'w') and one JSON line per thought.
SaveToFile(f, ok, sid, thoughts) ==
    IF ~ok THEN f
    ELSE [f EXCEPT ![FilePath(sid)] = [exists |-> TRUE, lines |-> thoughts]]

\* Variant: the file is read first and the primary store only when it is empty.
LoadFileFirst(m, f, up, truthy, ok, sid) ==
    LET thoughts == LoadFromFile(f, ok, sid)
    IN  IF thoughts # <<>> THEN thoughts ELSE MongoLoad(m, up, truthy, sid)

\* _load_thoughts
LoadThoughts(m, f, up, truthy, ok, sid) ==
    LET thoughts == MongoLoad(m, up, truthy, sid)
    IN  IF thoughts # <<>> THEN thoughts ELSE LoadFromFile(f, ok, sid)

\* The chain a load of the session returns in the current state.
Chain(sid) == LoadThoughts(mongo, file, mongoUp, collBool, fileOk, sid)

\* Identifiers a stored thought carries.
UsedUuids ==
    UNION { {mongo[s].thoughts[i].uuid : i \in 1..Len(mongo[s].thoughts)}
            \cup {file[FilePath(s)].lines[i].uuid :
                      i \in 1..Len(file[FilePath(s)].lines)} : s \in SessionIds }

\* uuid.uuid4(): an identifier no stored thought carries (the least such).
FreshUuid == CHOOSE u \in 1..(Cardinality(UsedUuids) + 1) :
                 u \notin UsedUuids /\ \A v \in 1..(u - 1) : v \in UsedUuids

----------------------------------------------------------------------------
(* _add_thought, from the loaded chain to the chain it saves or the         *)
(* exception it raises.                                                     *)

Raised(msg, thoughts) ==
    [exc |-> msg, chain |-> thoughts, merged |-> FALSE]

Mutated(thoughts, merged) ==
    [exc |-> "", chain |-> thoughts, merged |-> merged]

\* Variant: the budget test forgets the words of the new text.
OverBudgetIgnoringNew(thoughts, text) == SumTokens(thoughts) > MAX_TOKENS

\* current_tokens + _tokens(text) > MAX_TOKENS
OverBudget(thoughts, text) == SumTokens(thoughts) + Tokens(text) > MAX_TOKENS

\* Variant: no depth test at all.
DepthNeverChecked(thoughts) == FALSE

\* Variant: the depth test is off by one.
AtMaxDepthStrict(thoughts) == Len(thoughts) > MAX_DEPTH

\* len(thoughts) >= MAX_DEPTH
AtMaxDepth(thoughts) == Len(thoughts) >= MAX_DEPTH

\* The guard of the duplicate test: _similarity is called when it holds.
DedupGuard(thoughts, text, hasEmbed) ==
    /\ thoughts # <<>>
    /\ hasEmbed
    /\ ~IsContradiction(text)

\* The duplicate test of _add_thought is reached and _similarity is called.
DedupReached(thoughts, text, hasEmbed) ==
    /\ ~OverBudget(thoughts, text)
    /\ ~AtMaxDepth(thoughts)
    /\ DedupGuard(thoughts, text, hasEmbed)

\* Variant: the merge puts the new text in place of the old one.
MergeReplacingText(thoughts, text, ts) ==
    [thoughts EXCEPT ![Len(thoughts)] = [@ EXCEPT !.text = text, !.timestamp = ts]]

\* The merge: the last thought's text is extended and its timestamp refreshed.
MergeIntoLast(thoughts, text, ts) ==
    [thoughts EXCEPT ![Len(thoughts)] =
        [@ EXCEPT !.text = @ \o MergedSuffix(text), !.timestamp = ts]]

\* Variant: steps are numbered from one.
NewStepOneBased(thoughts) == Len(thoughts) + 1

\* "step": len(thoughts)
NewStep(thoughts) == Len(thoughts)

\* new_thought
NewThought(thoughts, text, ts, uid) ==
    [step |-> NewStep(thoughts), text |-> text, timestamp |-> ts, uuid |-> uid,
     semantic_id |-> SemanticHash(text), confidence |-> CONFIDENCE]

\* new_thought["parent"] = branch_from
\* Variant: the parent recorded is the new entry's own step.
WithOwnStepAsParent(t, parent) ==
    [f \in DOMAIN t \cup {"parent"} |-> IF f = "parent" THEN t.step ELSE t[f]]

WithParent(t, parent) ==
    [f \in DOMAIN t \cup {"parent"} |-> IF f = "parent" THEN parent ELSE t[f]]

\* 0 <= branch_from < len(thoughts)
InRange(thoughts, branch_from) ==
    0 <= branch_from.val /\ branch_from.val < Len(thoughts)

\* thoughts[branch_from].update({"text": text, "timestamp": ...})
ReviseAt(thoughts, index, text, ts) ==
    [thoughts EXCEPT ![index + 1] = [@ EXCEPT !.text = text, !.timestamp = ts]]

AddThought(thoughts, text, branch_from, operation, hasEmbed, cosine, ts, uid) ==
    IF OverBudget(thoughts, text)
    THEN Raised("Token budget exceeded", thoughts)
    ELSE IF AtMaxDepth(thoughts)
    THEN Raised("Maximum depth reached", thoughts)
    ELSE IF /\ DedupGuard(thoughts, text, hasEmbed)
            /\ ExceedsThreshold(Similarity(thoughts[Len(thoughts)].text, text,
                                           hasEmbed, cosine))
    THEN Mutated(MergeIntoLast(thoughts, text, ts), TRUE)
    ELSE IF operation = "append" \/ branch_from.isNone
    THEN Mutated(Append(thoughts, NewThought(thoughts, text, ts, uid)), FALSE)
    ELSE IF operation = "revise"
    THEN IF InRange(thoughts, branch_from)
         THEN Mutated(ReviseAt(thoughts, branch_from.val, text, ts), FALSE)
         ELSE Raised("Invalid branch_from index", thoughts)
    ELSE IF operation = "branch"
    THEN IF InRange(thoughts, branch_from)
         THEN Mutated(Append(thoughts,
                 WithParent(NewThought(thoughts, text, ts, uid), branch_from.val)),
                 FALSE)
         ELSE Raised("Invalid branch_from index", thoughts)
    ELSE Raised("Unknown operation", thoughts)

----------------------------------------------------------------------------
(* _format_thoughts *)

HasParent(t) == "parent" \in DOMAIN t

\* One line: indent, the zero-padded step, "→parent" for a branch, ": ", the text.
FormatLine(t) ==
    LET prefix == IF HasParent(t) THEN Pad2(t.step) \o <<"→">> \o DecStr(t.parent)
                  ELSE Pad2(t.step)
        arrows == Cardinality({i \in 1..Len(prefix) : prefix[i] = "→"})
        indent == [i \in 1..(2 * arrows) |-> " "]
    IN  indent \o prefix \o <<":", " ">> \o t.text

RECURSIVE JoinLines(_)
JoinLines(thoughts) ==
    IF thoughts = <<>> THEN <<>>
    ELSE IF Len(thoughts) = 1 THEN FormatLine(thoughts[1])
    ELSE FormatLine(Head(thoughts)) \o <<"\n">> \o JoinLines(Tail(thoughts))

\* The result of _format_thoughts on a loaded chain: the sentinel, or the lines.
FormatThoughts(thoughts) ==
    IF thoughts = <<>>
    THEN [kind |-> "sentinel", msg |-> "No thoughts recorded yet.", body |-> <<>>]
    ELSE [kind |-> "chain", msg |-> "", body |-> JoinLines(thoughts)]

----------------------------------------------------------------------------
(* Inputs of the calls. *)

\* The thoughts a caller passes: one plain word; two words, padded, the first a
\* capitalised contradiction marker; and a whitespace-only text.
PlainThought == <<"a">>

MarkerThought == <<" ", "N", "o", " ", "b">>

BlankThought == <<" ">>

Thoughts == {PlainThought, MarkerThought}

Operations == {"append", "revise", "branch", "merge"}

\* branch_from as an integer string: indices below, inside and past the chain.
IndexStrs == {DecStr(i) : i \in {0 - 1, 0, 1, MAX_DEPTH}}

NotANumber == <<"t", "w", "o">>

\* The argument triples <<thought, branch_from, operation>> of sequential_think:
\* every operation without an index, revise and branch with every index, append
\* and an unknown operation with an index, and the two rejected inputs.
ThinkInputs ==
    (Thoughts \X {NoneStr} \X Operations)
    \cup (Thoughts \X IndexStrs \X {"revise", "branch"})
    \cup ({PlainThought} \X {DecStr(0)} \X {"append", "merge"})
    \cup {<<BlankThought, NoneStr, "append">>, <<PlainThought, NotANumber, "append">>}

\* Cosines the embedding model may return around the threshold (hundredths).
\* NoCosine, the 0.0 _similarity returns when the model fails, is also what a
\* call that never asks the model is given.
Cosines == {DUPLICATE_THRESHOLD, DUPLICATE_THRESHOLD + 1}

NoCosine == 0

\* Thoughts handed to the store manager directly, as the repository's test
\* scripts do: a thought of the given step and text.
StoredThought(step, text) ==
    [step |-> step, text |-> text, timestamp |-> 0, uuid |-> step + 1,
     semantic_id |-> SemanticHash(text), confidence |-> CONFIDENCE]

ManagerThoughts ==
    {StoredThought(0, PlainThought), StoredThought(1, PlainThought),
     StoredThought(1, Strip(MarkerThought))}

\* The lists saved: empty, one thought, two different thoughts in either order.
ManagerChains ==
    {<<>>} \cup {<<x>> : x \in ManagerThoughts}
           \cup {p \in ManagerThoughts \X ManagerThoughts : p[1] # p[2]}

----------------------------------------------------------------------------
(* History kept for the properties. *)

NoRet == [kind |-> "none", msg |-> "", body |-> <<>>]

NoCall ==
    [call |-> "none", sid |-> <<>>, thought |-> <<>>, branch_from |-> <<>>,
     operation |-> "", clear |-> FALSE, loaded |-> FALSE, pre |-> <<>>,
     preMongo |-> NoDoc, preFile |-> NoFile, cosine |-> NoCosine,
     merged |-> FALSE, exc |-> "", ret |-> NoRet]

\* Neither backend holds a thought of the session.
NoData(m, f, sid) == m[sid].thoughts = <<>> /\ f[FilePath(sid)].lines = <<>>

FreshHist == [appends |-> 0, onlyAppends |-> TRUE]

\* hist after a call on sid that returned a formatted chain.
HistAfter(h, m, f, sid, operation, merged) ==
    IF NoData(m, f, sid) THEN [h EXCEPT ![sid] = FreshHist]
    ELSE IF operation = "append" /\ ~merged
    THEN [h EXCEPT ![sid].appends = IF @ <= MAX_DEPTH THEN @ + 1 ELSE @]
    ELSE [h EXCEPT ![sid].onlyAppends = FALSE]

\* lastSaved of a session: nothing yet, the chain of the last save, or cleared.
NotSaved == [state |-> "none", chain |-> <<>>]

Saved(thoughts) == [state |-> "saved", chain |-> thoughts]

Cleared == [state |-> "cleared", chain |-> <<>>]

----------------------------------------------------------------------------
(* The public API. *)

\* sequential_think(thought, session_id, branch_from, operation); cosine is what
\* the embedding model answers if _add_thought asks it.
Think(sid, thought, branch_from, operation, cosine) ==
    LET text == Strip(thought)
        call == [NoCall EXCEPT !.call = "think", !.sid = sid, !.thought = thought,
                               !.branch_from = branch_from, !.operation = operation,
                               !.preMongo = mongo[sid], !.preFile = file[FilePath(sid)]]
    IN
    /\ last.call = "none"
    /\ UNCHANGED inflight
    /\ IF text = <<>>
       THEN /\ cosine = NoCosine
            /\ last' = [call EXCEPT !.ret =
                   [kind |-> "message", msg |-> "Please provide a non-empty thought.",
                    body |-> <<>>]]
            /\ UNCHANGED <<mongo, file, mongoUp, collBool, fileOk, embed, now, hist, lastSaved>>
       ELSE IF branch_from # NoneStr /\ ~IntParses(branch_from)
       THEN /\ cosine = NoCosine
            /\ last' = [call EXCEPT !.ret =
                   [kind |-> "message",
                    msg |-> "Invalid branch_from value. Use integer or 'None'.",
                    body |-> <<>>]]
            /\ UNCHANGED <<mongo, file, mongoUp, collBool, fileOk, embed, now, hist, lastSaved>>
       ELSE
       LET branch_from_int == IF branch_from = NoneStr THEN NoneInt
                              ELSE SomeInt(IntValue(branch_from))
           thoughts == LoadThoughts(mongo, file, mongoUp, collBool, fileOk, sid)
           r == AddThought(thoughts, text, branch_from_int, operation, embed, cosine,
                           now, FreshUuid)
           mongo2 == MongoSave(mongo, mongoUp, collBool, sid, r.chain)
           file2 == SaveToFile(file, fileOk, sid, r.chain)
       IN  /\ IF DedupReached(thoughts, text, embed) THEN cosine \in Cosines
              ELSE cosine = NoCosine
           /\ IF r.exc # ""
              THEN /\ last' = [call EXCEPT !.loaded = TRUE, !.pre = thoughts,
                                           !.cosine = cosine, !.exc = r.exc,
                                           !.ret = [kind |-> "error", msg |-> r.exc,
                                                    body |-> <<>>]]
                   /\ UNCHANGED <<mongo, file, hist, lastSaved>>
              ELSE /\ mongo' = mongo2
                   /\ file' = file2
                   /\ lastSaved' = [lastSaved EXCEPT ![sid] = Saved(r.chain)]
                   /\ hist' = HistAfter(hist, mongo2, file2, sid, operation, r.merged)
                   /\ last' = [call EXCEPT !.loaded = TRUE, !.pre = thoughts,
                                           !.cosine = cosine, !.merged = r.merged,
                                           !.ret = FormatThoughts(
                                               LoadThoughts(mongo2, file2, mongoUp,
                                                            collBool, fileOk,
                                                            sid))]
           /\ UNCHANGED <<mongoUp, collBool, fileOk, embed, now>>

\* file_path.unlink(missing_ok=True)
Unlink(f, sid) == [f EXCEPT ![FilePath(sid)] = NoFile]

\* sequential_review(session_id, clear)
Review(sid, clear) ==
    LET call == [NoCall EXCEPT !.call = "review", !.sid = sid, !.clear = clear,
                               !.preMongo = mongo[sid], !.preFile = file[FilePath(sid)]]
    IN
    /\ last.call = "none"
    /\ UNCHANGED inflight
    /\ IF clear
       THEN IF fileOk
            THEN /\ file' = Unlink(file, sid)
                 /\ hist' = IF NoData(mongo, Unlink(file, sid), sid)
                            THEN [hist EXCEPT ![sid] = FreshHist] ELSE hist
                 /\ lastSaved' = [lastSaved EXCEPT ![sid] = Cleared]
                 /\ last' = [call EXCEPT !.ret =
                               [kind |-> "cleared", msg |-> "Session cleared.",
                                body |-> <<>>]]
                 /\ UNCHANGED <<mongo, mongoUp, collBool, fileOk, embed, now>>
            ELSE /\ last' = [call EXCEPT !.exc = "OSError",
                                         !.ret = [kind |-> "error", msg |-> "OSError",
                                                  body |-> <<>>]]
                 /\ UNCHANGED <<mongo, file, mongoUp, collBool, fileOk, embed, now, hist, lastSaved>>
       ELSE /\ last' = [call EXCEPT !.loaded = TRUE, !.pre = Chain(sid),
                                    !.ret = FormatThoughts(Chain(sid))]
            /\ UNCHANGED <<mongo, file, mongoUp, collBool, fileOk, embed, now, hist, lastSaved>>

\* manager.save_thoughts(session_id, thoughts), called on the store manager
\* itself.
ManagerSave(sid, thoughts) ==
    /\ last.call = "none"
    /\ UNCHANGED inflight
    /\ mongo' = MongoSave(mongo, mongoUp, collBool, sid, thoughts)
    /\ lastSaved' = [lastSaved EXCEPT ![sid] = Saved(thoughts)]
    /\ last' = [NoCall EXCEPT !.call = "save_thoughts", !.sid = sid,
                              !.pre = thoughts, !.preMongo = mongo[sid],
                              !.preFile = file[FilePath(sid)]]
    /\ UNCHANGED <<file, mongoUp, collBool, fileOk, embed, now, hist>>

\* manager.load_thoughts(session_id); last.pre is the list it returns.
ManagerLoad(sid) ==
    /\ last.call = "none"
    /\ UNCHANGED inflight
    /\ last' = [NoCall EXCEPT !.call = "load_thoughts", !.sid = sid,
                              !.loaded = TRUE,
                              !.pre = MongoLoad(mongo, mongoUp, collBool, sid),
                              !.preMongo = mongo[sid],
                              !.preFile = file[FilePath(sid)]]
    /\ UNCHANGED <<mongo, file, mongoUp, collBool, fileOk, embed, now, hist, lastSaved>>

\* The caller takes the string the call returned; the next call can start.
Return ==
    /\ last.call # "none"
    /\ UNCHANGED inflight
    /\ last' = NoCall
    /\ UNCHANGED <<mongo, file, mongoUp, collBool, fileOk, embed, now, hist, lastSaved>>

----------------------------------------------------------------------------
(* The environment. *)

\* A second of wall-clock time passes.
Tick ==
    /\ last.call = "none"
    /\ UNCHANGED inflight
    /\ now < MaxTime
    /\ now' = now + 1
    /\ UNCHANGED <<mongo, file, mongoUp, collBool, fileOk, embed, last, hist, lastSaved>>

\* The primary store becomes unreachable, or reachable again.
MongoFlip ==
    /\ last.call = "none"
    /\ UNCHANGED inflight
    /\ mongoUp' = ~mongoUp
    /\ UNCHANGED <<mongo, file, collBool, fileOk, embed, now, last, hist, lastSaved>>

\* The local file system starts refusing reads and writes (a full or read-only
\* disk, a permission change), or accepts them again.
FileFlip ==
    /\ last.call = "none"
    /\ UNCHANGED inflight
    /\ fileOk' = ~fileOk
    /\ UNCHANGED <<mongo, file, mongoUp, collBool, embed, now, last, hist, lastSaved>>

----------------------------------------------------------------------------
(* Calls of sequential_think(thought, session_id) from several request threads:
   each thread runs its call statement by statement, and the statements of
   different threads interleave.  Nothing in the module takes a lock. *)

\* uuid.uuid4() in a thread: an identifier carried by no stored thought and by
\* no thought another call holds in its local list.
InflightUuids ==
    UNION { {inflight[t].thoughts[i].uuid : i \in 1..Len(inflight[t].thoughts)} :
            t \in Threads }

ThreadUuid ==
    CHOOSE u \in 1..(Cardinality(UsedUuids \cup InflightUuids) + 1) :
        /\ u \notin UsedUuids \cup InflightUuids
        /\ \A v \in 1..(u - 1) : v \in UsedUuids \cup InflightUuids

\* sequential_think entered: the thought is stripped and found non-empty.
ThreadCall(t, sid, thought) ==
    /\ inflight[t].pc = "idle"
    /\ inflight[t].calls < MaxCalls
    /\ Strip(thought) # <<>>
    /\ inflight' = [inflight EXCEPT ![t] =
           [Idle EXCEPT !.pc = "load", !.sid = sid, !.text = Strip(thought),
                        !.calls = inflight[t].calls + 1]]
    /\ UNCHANGED <<mongo, file, mongoUp, collBool, fileOk, embed, now, last, hist,
                   lastSaved>>

\* _add_thought up to its save: _load_thoughts, the checks and the append, all
\* on the thread's own list.
ThreadLoad(t) ==
    LET me == inflight[t]
        thoughts == Chain(me.sid)
        r == AddThought(thoughts, me.text, NoneInt, "append", embed, NoCosine, now,
                        ThreadUuid)
        seen == [me EXCEPT !.loaded = thoughts]
    IN
    /\ me.pc = "load"
    /\ ~embed
    /\ inflight' = [inflight EXCEPT ![t] =
           IF r.exc # ""
           THEN [seen EXCEPT !.pc = "done", !.exc = r.exc,
                             !.ret = [kind |-> "error", msg |-> r.exc, body |-> <<>>]]
           ELSE [seen EXCEPT !.pc = "save_primary", !.thoughts = r.chain]]
    /\ UNCHANGED <<mongo, file, mongoUp, collBool, fileOk, embed, now, last, hist,
                   lastSaved>>

\* _save_thoughts, first half: save_thoughts of the manager, one replace_one.
ThreadSavePrimary(t) ==
    LET me == inflight[t] IN
    /\ me.pc = "save_primary"
    /\ mongo' = MongoSave(mongo, mongoUp, collBool, me.sid, me.thoughts)
    /\ inflight' = [inflight EXCEPT ![t].pc = "open_file"]
    /\ UNCHANGED <<file, mongoUp, collBool, fileOk, embed, now, last, hist, lastSaved>>

\* _save_thoughts_to_file, open(file_path, 'w'): the file is cut to no bytes.
ThreadOpenFile(t) ==
    LET me == inflight[t] IN
    /\ me.pc = "open_file"
    /\ IF fileOk
       THEN /\ file' = [file EXCEPT ![FilePath(me.sid)] =
                            [exists |-> TRUE, lines |-> <<>>]]
            /\ inflight' = [inflight EXCEPT ![t] =
                   [me EXCEPT !.pc = "close_file",
                              !.fileBefore = LoadFromFile(file, fileOk, me.sid)]]
       ELSE /\ inflight' = [inflight EXCEPT ![t].pc = "format"]
            /\ UNCHANGED file
    /\ UNCHANGED <<mongo, mongoUp, collBool, fileOk, embed, now, last, hist, lastSaved>>

\* _save_thoughts_to_file, the end of the with block: the lines written to the
\* handle's buffer reach the file.  For a save that has the file open and has
\* not written yet, fileBefore is the chain the file held last before its bytes
\* arrive: the one another save completes here.
ThreadCloseFile(t) ==
    LET me == inflight[t] IN
    /\ me.pc = "close_file"
    /\ file' = [file EXCEPT ![FilePath(me.sid)] =
                    [exists |-> TRUE,
                     lines |-> WriteAtStart(file[FilePath(me.sid)].lines, me.thoughts)]]
    /\ inflight' = [u \in Threads |->
           IF u = t THEN [me EXCEPT !.pc = "format"]
           ELSE IF inflight[u].pc = "close_file"
                   /\ FilePath(inflight[u].sid) = FilePath(me.sid)
           THEN [inflight[u] EXCEPT !.fileBefore = LoadFromFile(file', fileOk, me.sid)]
           ELSE inflight[u]]
    /\ UNCHANGED <<mongo, mongoUp, collBool, fileOk, embed, now, last, hist, lastSaved>>

\* _format_thoughts: the chain is loaded again and rendered.
ThreadFormat(t) ==
    /\ inflight[t].pc = "format"
    /\ inflight' = [inflight EXCEPT ![t] =
           [inflight[t] EXCEPT !.pc = "done",
                               !.ret = FormatThoughts(Chain(inflight[t].sid))]]
    /\ UNCHANGED <<mongo, file, mongoUp, collBool, fileOk, embed, now, last, hist,
                   lastSaved>>

\* The thread's caller takes the string; the thread serves its next request.
ThreadReturn(t) ==
    /\ inflight[t].pc = "done"
    /\ inflight' = [inflight EXCEPT ![t] = [Idle EXCEPT !.calls = inflight[t].calls]]
    /\ UNCHANGED <<mongo, file, mongoUp, collBool, fileOk, embed, now, last, hist,
                   lastSaved>>

----------------------------------------------------------------------------
(* Specifications. *)

\* After import: empty stores; the primary is reachable or not, the embedding
\* model loaded or not.  The driver is one whose collections can be truth
\* tested; with the other driver the calls behave as they do with the primary
\* unreachable (InitFaults has both drivers).
Init ==
    /\ mongo = [s \in SessionIds |-> NoDoc]
    /\ file = [p \in FilePaths |-> NoFile]
    /\ mongoUp \in BOOLEAN
    /\ collBool = TRUE
    /\ fileOk = TRUE
    /\ embed \in BOOLEAN
    /\ now = 0
    /\ last = NoCall
    /\ hist = [s \in SessionIds |-> FreshHist]
    /\ lastSaved = [s \in SessionIds |-> NotSaved]
    /\ inflight = [t \in Threads |-> Idle]

Calls ==
    \/ \E sid \in Sessions, in \in ThinkInputs, cosine \in Cosines \cup {NoCosine} :
          Think(sid, in[1], in[2], in[3], cosine)
    \/ \E sid \in Sessions, clear \in BOOLEAN : Review(sid, clear)

\* Sequential calls within one second of the clock, with both backends in the
\* condition they had at start.
Next == Calls \/ Return

Spec == Init /\ [][Next]_vars

\* Appends and reviews only.
AppendCalls ==
    \/ \E sid \in Sessions, thought \in Thoughts, cosine \in Cosines \cup {NoCosine} :
          Think(sid, thought, NoneStr, "append", cosine)
    \/ \E sid \in Sessions, clear \in BOOLEAN : Review(sid, clear)

\* Appends and reviews, with the primary store going away and coming back
\* between calls.
NextOutage == AppendCalls \/ Return \/ MongoFlip

\* The build without the embedding model, the primary store reachable at start.
InitOutage ==
    /\ Init
    /\ mongoUp = TRUE
    /\ embed = FALSE

SpecOutage == InitOutage /\ [][NextOutage]_vars

\* Appends of the plain thought, and reviews.
PlainCalls ==
    \/ \E sid \in Sessions : Think(sid, PlainThought, NoneStr, "append", NoCosine)
    \/ \E sid \in Sessions, clear \in BOOLEAN : Review(sid, clear)

\* Appends and reviews with either backend failing and recovering between
\* calls, for both kinds of driver.
NextFaults == PlainCalls \/ Return \/ MongoFlip \/ FileFlip

\* The build without the embedding model, both backends healthy at start, the
\* driver's collections truth testable or not.
InitFaults ==
    /\ mongo = [s \in SessionIds |-> NoDoc]
    /\ file = [p \in FilePaths |-> NoFile]
    /\ mongoUp = TRUE
    /\ collBool \in BOOLEAN
    /\ fileOk = TRUE
    /\ embed = FALSE
    /\ now = 0
    /\ last = NoCall
    /\ hist = [s \in SessionIds |-> FreshHist]
    /\ lastSaved = [s \in SessionIds |-> NotSaved]
    /\ inflight = [t \in Threads |-> Idle]

SpecFaults == InitFaults /\ [][NextFaults]_vars

\* The store manager used directly, with the primary store connected, for both
\* kinds of driver.
NextManager ==
    \/ \E sid \in {S1, S2}, thoughts \in ManagerChains : ManagerSave(sid, thoughts)
    \/ \E sid \in {S1, S2} : ManagerLoad(sid)
    \/ Return

InitManager ==
    /\ InitFaults
    /\ mongoUp = TRUE

SpecManager == InitManager /\ [][NextManager]_vars

\* Appends of the plain thought and reviews of the chain, on every session id.
SessionCalls ==
    \/ \E sid \in SessionIds : Think(sid, PlainThought, NoneStr, "append", NoCosine)
    \/ \E sid \in SessionIds : Review(sid, FALSE)

NextSessions == SessionCalls \/ Return

\* The build without the embedding model; the primary reachable or not.
InitSessions ==
    /\ Init
    /\ embed = FALSE

\* Sequential calls on several sessions, in any order.
SpecSessions == InitSessions /\ [][NextSessions]_vars

\* Appends of texts that hold the letters of a marker inside a longer word,
\* and of one that holds none, in the build that has the embedding model, while
\* the clock runs and the primary store goes and comes back.
KnowThought == <<"k", "n", "o", "w">>

MarkerCalls ==
    \E thought \in {PlainThought, KnowThought}, cosine \in Cosines \cup {NoCosine} :
        Think(S1, thought, NoneStr, "append", cosine)

NextMarkers == MarkerCalls \/ Return \/ MongoFlip \/ Tick

InitMarkers ==
    /\ Init
    /\ embed = TRUE

SpecMarkers == InitMarkers /\ [][NextMarkers]_vars

\* Two request threads appending to one session, without the embedding model:
\* one sends a one-letter thought, the other a longer one.
ThreadThoughts == [t \in Threads |-> IF t = "t1" THEN PlainThought ELSE <<"a", "b">>]

NextConcurrent ==
    \/ \E t \in Threads : ThreadCall(t, S1, ThreadThoughts[t])
    \/ \E t \in Threads : ThreadLoad(t)
    \/ \E t \in Threads : ThreadSavePrimary(t)
    \/ \E t \in Threads : ThreadOpenFile(t)
    \/ \E t \in Threads : ThreadCloseFile(t)
    \/ \E t \in Threads : ThreadFormat(t)
    \/ \E t \in Threads : ThreadReturn(t)

InitConcurrent ==
    /\ Init
    /\ embed = FALSE

SpecConcurrent == InitConcurrent /\ [][NextConcurrent]_vars

----------------------------------------------------------------------------
(* Properties.  They read the call that has just returned (last), the chain *)
(* a load returns now, and the per-session history.                         *)

\* The text sequential_think hands to _add_thought.
LastText == Strip(last.thought)

\* branch_from as _add_thought receives it.
LastIndex ==
    IF last.branch_from = NoneStr THEN NoneInt
    ELSE SomeInt(IntValue(last.branch_from))

\* The call that has just returned is a think with this operation that passed
\* validation and ran _add_thought on the chain last.pre.
ThinkRan(operation) ==
    last.call = "think" /\ last.operation = operation /\ last.loaded

\* The chain a load of the last call's session returns after the call.
After == Chain(last.sid)

\* Neither backend's record of the last call's session was changed by the call.
StoresUntouched ==
    mongo[last.sid] = last.preMongo /\ file[FilePath(last.sid)] = last.preFile

ReturnedError == last.ret.kind = "error"

\* The text has a contradiction marker as one of its words, in any case.
HasMarkerWord(text) ==
    \E w \in SeqToSet(Split(Lower(text))) : w \in ContradictionKeywords

StepsFromZero(thoughts) ==
    \A i \in 1..Len(thoughts) : thoughts[i].step = i - 1

\* C1: from a session with no data in either backend, after N successful
\* append calls none of which merged (and no other successful call), the loaded
\* chain has exactly N entries and their steps are 0..N-1 in chain order.
C1_AppendsNumbered ==
    \A s \in Sessions :
        hist[s].onlyAppends =>
            /\ Len(Chain(s)) = hist[s].appends
            /\ StepsFromZero(Chain(s))

C1_Witness ==
    \E s \in Sessions :
        /\ hist[s].onlyAppends
        /\ hist[s].appends = MAX_DEPTH
        /\ Len(Chain(s)) = MAX_DEPTH

\* C2: an append to a non-empty chain of a text without a contradiction marker
\* whose similarity to the last entry's text exceeds 0.92 leaves the chain
\* length unchanged and the last text contains both the old and the new text.
C2_SimilarAppendMerges ==
    ( /\ ThinkRan("append")
      /\ last.pre # <<>>
      /\ ~IsContradiction(LastText)
      /\ ExceedsThreshold(Similarity(last.pre[Len(last.pre)].text, LastText,
                                     embed, last.cosine)) )
    => /\ Len(After) = Len(last.pre)
       /\ Contains(After[Len(After)].text, last.pre[Len(last.pre)].text)
       /\ Contains(After[Len(After)].text, LastText)

\* C3: an append of a text with a contradiction marker, when depth and token
\* budget allow, adds a new last entry whose text is exactly the new text and
\* leaves every earlier entry, the previous last one included, as it was.
C3_ContradictionAppends ==
    ( /\ ThinkRan("append")
      /\ HasMarkerWord(LastText)
      /\ Len(last.pre) < MAX_DEPTH
      /\ SumTokens(last.pre) + Tokens(LastText) <= MAX_TOKENS )
    => /\ last.ret.kind = "chain"
       /\ Len(After) = Len(last.pre) + 1
       /\ After[Len(After)].text = LastText
       /\ SubSeq(After, 1, Len(last.pre)) = last.pre

\* A marker text appended to a non-empty chain in the build that has the
\* embedding model, where a text without the marker could have been merged.
C3_Witness ==
    /\ ThinkRan("append")
    /\ HasMarkerWord(LastText)
    /\ embed
    /\ last.pre # <<>>
    /\ Len(After) = Len(last.pre) + 1

\* C4: an append whose words added to the chain's word count exceed MAX_TOKENS
\* returns an error string and leaves the session's record in both backends
\* unchanged.
C4_OverBudgetRejected ==
    ( /\ ThinkRan("append")
      /\ SumTokens(last.pre) + Tokens(last.thought) > MAX_TOKENS )
    => ReturnedError /\ StoresUntouched

C4_Witness ==
    /\ ThinkRan("append")
    /\ last.pre # <<>>
    /\ Len(last.pre) < MAX_DEPTH
    /\ SumTokens(last.pre) + Tokens(last.thought) > MAX_TOKENS
    /\ last.ret.msg = "Token budget exceeded"

\* C5: an append to a chain whose length equals MAX_DEPTH returns an error
\* string and leaves the session's record in both backends unchanged.
C5_AtMaxDepthRejected ==
    (ThinkRan("append") /\ Len(last.pre) = MAX_DEPTH)
    => ReturnedError /\ StoresUntouched

C5_Witness ==
    /\ ThinkRan("append")
    /\ Len(last.pre) = MAX_DEPTH
    /\ last.ret.msg = "Maximum depth reached"

\* C6: a revise with an integer branch_from outside 0..len(chain)-1 returns an
\* error string and leaves the chain unchanged, for every chain and text.
C6_ReviseOutOfRangeRejected ==
    ( /\ ThinkRan("revise")
      /\ ~LastIndex.isNone
      /\ ~(0 <= LastIndex.val /\ LastIndex.val < Len(last.pre)) )
    => ReturnedError /\ After = last.pre

\* C7: a branch with a branch_from that is a valid index of the chain adds a
\* new last entry whose parent is branch_from and whose step is the chain
\* length before the call, for every text.
C7_BranchAddsChild ==
    ( /\ ThinkRan("branch")
      /\ ~LastIndex.isNone
      /\ 0 <= LastIndex.val /\ LastIndex.val < Len(last.pre) )
    => /\ Len(After) = Len(last.pre) + 1
       /\ HasParent(After[Len(After)])
       /\ After[Len(After)].parent = LastIndex.val
       /\ After[Len(After)].step = Len(last.pre)

\* C8: a review(clear=false) that follows a review(clear=true) of the session
\* returns the empty-chain sentinel, whatever the backends held.
C8_ClearThenReviewEmpty ==
    ( /\ last.call = "review"
      /\ ~last.clear
      /\ lastSaved[last.sid].state = "cleared" )
    => last.ret.kind = "sentinel"

\* C9: after save(session, chain) a load of the session returns the entries
\* saved, whatever the backends held before and whether or not the primary
\* was reachable during the save.
C9_SaveLoadRoundTrip ==
    \A s \in Sessions :
        lastSaved[s].state = "saved" =>
            SortByStep(Chain(s)) = SortByStep(lastSaved[s].chain)

\* C10: in every chain reachable by think calls, merges included, the words of
\* all entries' texts together do not exceed MAX_TOKENS.
C10_WithinTokenBudget ==
    \A s \in Sessions : SumTokens(Chain(s)) <= MAX_TOKENS

\* C11: in every chain reachable by think calls (append, revise, branch) the
\* number of entries does not exceed MAX_DEPTH: in the chain a load returns and
\* in what each backend stores.
C11_WithinMaxDepth ==
    \A s \in Sessions :
        /\ Len(Chain(s)) <= MAX_DEPTH
        /\ Len(mongo[s].thoughts) <= MAX_DEPTH
        /\ Len(file[FilePath(s)].lines) <= MAX_DEPTH

\* A full chain whose last entry a branch added, and a call on it rejected.
C11_Witness ==
    /\ last.call = "think"
    /\ last.loaded
    /\ Len(last.pre) = MAX_DEPTH
    /\ HasParent(last.pre[MAX_DEPTH])
    /\ last.operation \in {"revise", "branch"}
    /\ last.ret.msg = "Maximum depth reached"
    /\ Len(After) = MAX_DEPTH

\* What the primary backend holds for the last call's session as the call
\* started, in step order.
PrimaryChainBefore == SortByStep(last.preMongo.thoughts)

\* What the session's file held as the last call started, in step order; empty
\* when there is no file or it cannot be read.
FileChainBefore ==
    IF fileOk /\ last.preFile.exists THEN SortByStep(last.preFile.lines) ELSE <<>>

\* C12: a load returns the primary backend's chain when the primary is
\* reachable and holds a non-empty chain for the session, otherwise the file
\* backend's chain, and the empty chain, never an error, when neither has data.
C12_LoadPrefersPrimary ==
    last.loaded =>
        /\ last.pre = IF mongoUp /\ collBool /\ PrimaryChainBefore # <<>>
                      THEN PrimaryChainBefore
                      ELSE FileChainBefore
        /\ (last.call = "review" /\ PrimaryChainBefore = <<>> /\ FileChainBefore = <<>>)
               => last.ret.kind = "sentinel"

\* A load with the primary reachable, while primary and file hold different
\* non-empty chains.
C12_Witness ==
    /\ last.call = "review"
    /\ last.loaded
    /\ mongoUp /\ collBool
    /\ PrimaryChainBefore # <<>>
    /\ FileChainBefore # <<>>
    /\ PrimaryChainBefore # FileChainBefore
    /\ last.pre = PrimaryChainBefore

\* The last call is a think that reached _save_thoughts.
ThinkSaved == last.call = "think" /\ last.loaded /\ last.exc = ""

\* C13: the two writes of a save are independent.  When the primary write
\* fails the full chain is still written to the session's file, when the file
\* write fails the primary write still happens, and the save never raises to
\* its caller (the call returns the formatted chain, not an error).
C13_WritesIndependent ==
    ThinkSaved =>
        /\ fileOk => file[FilePath(last.sid)] =
                         [exists |-> TRUE, lines |-> lastSaved[last.sid].chain]
        /\ (mongoUp /\ collBool) =>
               mongo[last.sid] =
                   [exists |-> TRUE, thoughts |-> lastSaved[last.sid].chain]
        /\ last.ret.kind \in {"chain", "sentinel"}

\* A save whose file write failed while the primary write happened, the file
\* keeping an older chain.
C13_Witness ==
    /\ ThinkSaved
    /\ ~fileOk
    /\ mongoUp /\ collBool
    /\ mongo[last.sid].thoughts = lastSaved[last.sid].chain
    /\ file[FilePath(last.sid)].exists
    /\ file[FilePath(last.sid)].lines # lastSaved[last.sid].chain

\* What the two backends store under session id b: the primary's document and
\* the file at the session's path.
StoredFor(m, f, b) == <<m[b], f[FilePath(b)]>>

\* C14: sessions are isolated: a think or review call on a session never
\* changes what either backend stores for a different session.
C14_SessionsIsolated ==
    [][\A b \in SessionIds :
          (last'.call # "none" /\ last'.sid # b)
              => StoredFor(mongo', file', b) = StoredFor(mongo, file, b)]_vars

\* The text is empty or has whitespace characters only.
WhitespaceOnly(text) == \A i \in 1..Len(text) : IsSpace(text[i])

\* C15: a think with an empty or whitespace-only thought, or with a branch_from
\* that is neither "None" nor an integer string, returns a user-facing message,
\* not an error, and neither reads nor writes a backend.
C15_InvalidInputMessage ==
    ( /\ last.call = "think"
      /\ \/ WhitespaceOnly(last.thought)
         \/ (last.branch_from # NoneStr /\ ~IntParses(last.branch_from)) )
    => /\ last.ret.kind = "message"
       /\ ~last.loaded
       /\ StoresUntouched

\* A whitespace-only thought rejected while the session holds a chain.
C15_Witness ==
    /\ last.call = "think"
    /\ last.thought # <<>>
    /\ WhitespaceOnly(last.thought)
    /\ last.ret.msg = "Please provide a non-empty thought."
    /\ Chain(last.sid) # <<>>

\* C16: a think with an operation name other than append, revise or branch
\* returns an error string and leaves the chain unchanged, for every
\* branch_from ("None" included) and every text.
C16_UnknownOperationRejected ==
    ( /\ last.call = "think"
      /\ last.loaded
      /\ last.operation \notin {"append", "revise", "branch"} )
    => ReturnedError /\ After = last.pre

IsSortedByStep(thoughts) ==
    \A i \in 1..(Len(thoughts) - 1) : thoughts[i].step <= thoughts[i + 1].step

\* The two lists hold the same thoughts, each as many times.
SameThoughts(a, b) ==
    /\ Len(a) = Len(b)
    /\ \A x \in SeqToSet(a) \cup SeqToSet(b) :
           Cardinality({i \in 1..Len(a) : a[i] = x})
               = Cardinality({i \in 1..Len(b) : b[i] = x})

\* C17: on the store manager with the primary connected, a load_thoughts that
\* follows a save_thoughts of the session returns exactly the thoughts saved,
\* ordered by step, and the document holds the saved list only.
C17_ManagerRoundTrip ==
    ( /\ last.call = "load_thoughts"
      /\ mongoUp
      /\ lastSaved[last.sid].state = "saved" )
    => /\ SameThoughts(last.pre, lastSaved[last.sid].chain)
       /\ IsSortedByStep(last.pre)
       /\ mongo[last.sid].thoughts = lastSaved[last.sid].chain

\* C18: after a think that returns without an error while both backends are
\* healthy, the primary's document and the session's file hold the same chain,
\* and that chain contains the thought just recorded.
C18_BackendsAgree ==
    (ThinkSaved /\ mongoUp /\ fileOk)
    => /\ mongo[last.sid].exists
       /\ file[FilePath(last.sid)].exists
       /\ mongo[last.sid].thoughts = file[FilePath(last.sid)].lines
       /\ \E i \in 1..Len(mongo[last.sid].thoughts) :
              Contains(mongo[last.sid].thoughts[i].text, LastText)

\* The last call ran _add_thought with an integer branch_from that is an index
\* of the chain it loaded.
ValidIndex ==
    /\ ~LastIndex.isNone
    /\ 0 <= LastIndex.val
    /\ LastIndex.val < Len(last.pre)

\* C19: the depth and token-budget checks reject appends only: a revise or a
\* branch with a valid index is never rejected with "Maximum depth reached" or
\* "Token budget exceeded".
C19_BudgetChecksAppendOnly ==
    ((ThinkRan("revise") \/ ThinkRan("branch")) /\ ValidIndex)
    => last.ret.msg \notin {"Maximum depth reached", "Token budget exceeded"}

\* The fields of a thought a revise must keep: all but text and timestamp.
KeptFields(t) == [f \in (DOMAIN t) \ {"text", "timestamp"} |-> t[f]]

\* C20: a revise with a valid index i sets entry i's text to the new text and
\* changes nothing else: the chain length, the step, id and parent of entry i
\* and every field of every other entry stay as they were, for every text.
C20_ReviseInPlace ==
    (ThinkRan("revise") /\ ValidIndex)
    => /\ Len(After) = Len(last.pre)
       /\ After[LastIndex.val + 1].text = LastText
       /\ KeptFields(After[LastIndex.val + 1]) = KeptFields(last.pre[LastIndex.val + 1])
       /\ \A j \in 1..Len(last.pre) :
              j # LastIndex.val + 1 => After[j] = last.pre[j]

\* C21: when a think(append) passes validation and the budget checks but the
\* writes to both backends fail, the call still returns the rendering of the
\* chain as this call mutated it.
C21_ResultKeepsMutation ==
    ( /\ ThinkSaved
      /\ last.operation = "append"
      /\ ~(mongoUp /\ collBool)
      /\ ~fileOk )
    => last.ret = FormatThoughts(lastSaved[last.sid].chain)

\* C23: only a marker that stands as a word of its own keeps an append from
\* being merged: a text that has a marker's letters inside a longer word, such
\* as "know", is still put to the similarity test, and is merged into the last
\* entry when the embedding model rates the two texts above 0.92.
C23_MarkerInsideWordMerges ==
    ( /\ ThinkRan("append")
      /\ embed
      /\ last.pre # <<>>
      /\ ~HasMarkerWord(LastText)
      /\ Len(last.pre) < MAX_DEPTH
      /\ SumTokens(last.pre) + Tokens(LastText) <= MAX_TOKENS )
    => /\ last.cosine \in Cosines
       /\ last.cosine > DUPLICATE_THRESHOLD => last.merged /\ Len(After) = Len(last.pre)

\* C24: without the embedding model the merge decision is taken on the word
\* overlap of the two texts: an append of a text whose words are those of the
\* last entry's text (overlap 1.0) is merged into that entry.
C24_WordOverlapMerges ==
    ( /\ ThinkRan("append")
      /\ ~embed
      /\ last.pre # <<>>
      /\ ~IsContradiction(LastText)
      /\ Len(last.pre) < MAX_DEPTH
      /\ SumTokens(last.pre) + Tokens(LastText) <= MAX_TOKENS
      /\ Similarity(last.pre[Len(last.pre)].text, LastText, FALSE, NoCosine) = <<1, 1>> )
    => /\ last.merged
       /\ Len(After) = Len(last.pre)
       /\ After[Len(After)].text = last.pre[Len(last.pre)].text \o MergedSuffix(LastText)

\* C25: a merge changes the last entry's text and timestamp and nothing else:
\* the chain keeps its length, every other entry and the last entry's other
\* fields stay as they were, and the new last text is the old text followed by
\* a newline, "[merged] " and the new text.
C25_MergeTouchesLastOnly ==
    (last.call = "think" /\ last.merged)
    => /\ Len(After) = Len(last.pre)
       /\ \A i \in 1..(Len(last.pre) - 1) : After[i] = last.pre[i]
       /\ After[Len(After)] =
              [last.pre[Len(last.pre)] EXCEPT
                  !.text = last.pre[Len(last.pre)].text \o MergedSuffix(LastText),
                  !.timestamp = now]

\* A merge into the second entry of a chain, a second after that entry was made.
C25_Witness ==
    /\ last.call = "think" /\ last.merged
    /\ Len(last.pre) >= 2
    /\ last.pre[Len(last.pre)].timestamp < now
    /\ After[Len(After)].timestamp = now
    /\ After[Len(After)].text # last.pre[Len(last.pre)].text

\* C26: a branch adds an entry only when branch_from is an index of the
\* chain: with branch_from out of range or "None" the call returns an error
\* and leaves the session's record in both backends unchanged, and an entry
\* that a branch call appends carries a parent field.
C26_BranchNeedsValidIndex ==
    ThinkRan("branch")
    => /\ ~ValidIndex => (ReturnedError /\ StoresUntouched)
       /\ Len(After) = Len(last.pre) + 1 => HasParent(After[Len(After)])

\* The entries of a chain that carry a parent field.
WithParentField(thoughts) == SelectSeq(thoughts, HasParent)

\* C27: in every stored chain an entry carries a parent field only if a branch
\* created it, and its parent is then an index from 0 up to, not including,
\* the entry's own step.
C27_ParentBelowOwnStep ==
    /\ \A sid \in Sessions :
          \A t \in SeqToSet(Chain(sid)) : HasParent(t) => 0 <= t.parent /\ t.parent < t.step
    /\ (last.call = "think" /\ last.loaded /\ last.operation # "branch")
          => Len(WithParentField(After)) = Len(WithParentField(last.pre))
    /\ ThinkRan("branch")
          => Len(WithParentField(After)) \in
                 {Len(WithParentField(last.pre)), Len(WithParentField(last.pre)) + 1}

\* A revise of a chain whose last entry a branch has made a child of entry 0.
C27_Witness ==
    /\ ThinkRan("revise")
    /\ last.ret.kind = "chain"
    /\ Len(After) >= 2
    /\ HasParent(After[Len(After)])
    /\ After[Len(After)].parent = 0

\* The entry a parent field names by index is the entry with that step.
ParentIsStep(thoughts) ==
    \A i \in 1..Len(thoughts) :
        HasParent(thoughts[i])
            => /\ thoughts[i].parent + 1 \in 1..Len(thoughts)
               /\ thoughts[thoughts[i].parent + 1].step = thoughts[i].parent

\* C28: in every chain reached from an empty session by sequential think
\* calls the entry at list index i has step i: the steps are 0..len-1 without
\* gap or repeat, and the entry a parent field names by index is the entry
\* with that step.
C28_StepIsIndex ==
    \A sid \in Sessions : StepsFromZero(Chain(sid)) /\ ParentIsStep(Chain(sid))

\* A chain whose last entry is a child of the first, after a call that
\* merged a text into that child.
C28_Witness ==
    /\ last.call = "think" /\ last.merged
    /\ Len(After) >= 2
    /\ HasParent(After[Len(After)])
    /\ After[Len(After)].parent = 0
    /\ StepsFromZero(After)

\* C29: in sequential execution, as long as the session is not cleared, every
\* thought of the chain that the last successful think saved is in the chain a
\* load returns, also after the primary store has been unreachable and has
\* come back.
C29_SavedThoughtStays ==
    \A s \in Sessions :
        lastSaved[s].state = "saved" =>
            \A i \in 1..Len(lastSaved[s].chain) :
                \E j \in 1..Len(Chain(s)) :
                    Chain(s)[j].uuid = lastSaved[s].chain[i].uuid

----------------------------------------------------------------------------
(* Concurrent calls. *)

\* The thread has written the primary store in its current call.
WrotePrimary(t) ==
    /\ inflight[t].pc \in {"open_file", "close_file", "format", "done"}
    /\ inflight[t].exc = ""

\* The thread's call returned a rendered chain, not an error.
ReturnedChain(t) ==
    /\ inflight[t].pc = "done"
    /\ inflight[t].exc = ""
    /\ inflight[t].ret.kind = "chain"

\* C22: load, mutate and save are not atomic: when two calls on one session
\* loaded the same chain and both have saved, the primary store holds the list
\* of one of them, the loaded chain plus that call's thought only, and the other
\* call's thought is lost although neither call fails.
C22_ConcurrentAppendLosesUpdate ==
    \A t \in Threads, u \in Threads :
        ( /\ t # u
          /\ WrotePrimary(t) /\ WrotePrimary(u)
          /\ inflight[t].sid = inflight[u].sid
          /\ inflight[t].loaded = inflight[u].loaded
          /\ mongoUp /\ collBool )
        => /\ mongo[inflight[t].sid].thoughts \in
                  {inflight[t].thoughts, inflight[u].thoughts}
           /\ Len(mongo[inflight[t].sid].thoughts) = Len(inflight[t].loaded) + 1

C22_Witness ==
    /\ mongoUp
    /\ ReturnedChain("t1") /\ ReturnedChain("t2")
    /\ inflight["t1"].loaded = inflight["t2"].loaded
    /\ inflight["t1"].loaded # <<>>
    /\ Len(Chain(S1)) = Len(inflight["t1"].loaded) + 1
    /\ Chain(S1) = inflight["t2"].thoughts
    /\ inflight["t1"].thoughts # inflight["t2"].thoughts

\* C30: a load from the file that runs while another call is saving the same
\* session returns the chain the file held before that save or the full chain
\* being saved.
C30_FileLoadSeesWholeChain ==
    [][\A t \in Threads, u \in Threads :
          ( /\ t # u
            /\ inflight[t].pc = "load" /\ inflight'[t].pc # "load"
            /\ inflight[u].pc = "close_file"
            /\ FilePath(inflight[u].sid) = FilePath(inflight[t].sid) )
          => LoadFromFile(file, fileOk, inflight[t].sid) \in
                 {inflight[u].fileBefore, inflight[u].thoughts}]_vars

====
